---- MODULE Spec2Model ----
(***************************************************************************)
(* Model of the Postfix log correlation engine, src/lognormalizer/parse.py *)
(* (classes PostfixEvent and PostfixLogParser).                            *)
(*                                                                         *)
(* Representation of Python values:                                        *)
(*  - a str is a sequence of symbols.  A symbol is a TLA+ string standing  *)
(*    for one character; a word that contains none of the characters the   *)
(*    parser looks at may be written as one symbol ("removed", "from").    *)
(*    Tokens that are measured by len() are written character by           *)
(*    character.                                                           *)
(*  - a log line is the sequence of its whitespace-separated tokens, that  *)
(*    is the value of s.split() at parse.py:388.                           *)
(*  - a dict is a function whose DOMAIN is the set of keys present; dict   *)
(*    values are tagged [ty, v] because one key may hold a str, a list or  *)
(*    a datetime.                                                          *)
(*  - time is counted in units of 30 seconds.                              *)
(***************************************************************************)
EXTENDS Integers, Sequences, FiniteSets, TLC

VARIABLES state, order, next_cleanup, clock, events, faults, last, ret, nfeeds, last_sweep,
          evicted

vars == <<state, order, next_cleanup, clock, events, faults, last, ret, nfeeds, last_sweep,
          evicted>>

(***************************************************************************)
(* Python str methods on symbol sequences                                  *)
(***************************************************************************)
RECURSIVE lstrip(_, _)
lstrip(s, chars) ==
    IF Len(s) > 0 /\ Head(s) \in chars THEN lstrip(Tail(s), chars) ELSE s

RECURSIVE rstrip(_, _)
rstrip(s, chars) ==
    IF Len(s) > 0 /\ s[Len(s)] \in chars
    THEN rstrip(SubSeq(s, 1, Len(s) - 1), chars)
    ELSE s

strip(s, chars) == rstrip(lstrip(s, chars), chars)

contains(s, c) == \E i \in 1..Len(s) : s[i] = c

find(s, c) == CHOOSE i \in 1..Len(s) : s[i] = c /\ \A j \in 1..(i - 1) : s[j] /= c

\* s.split(c, 1): one or two parts
split_once(s, c) ==
    IF contains(s, c)
    THEN <<SubSeq(s, 1, find(s, c) - 1), SubSeq(s, find(s, c) + 1, Len(s))>>
    ELSE <<s>>

\* s.split(c): every part, empty parts kept
RECURSIVE split_all(_, _)
split_all(s, c) ==
    IF contains(s, c)
    THEN <<SubSeq(s, 1, find(s, c) - 1)>> \o split_all(SubSeq(s, find(s, c) + 1, Len(s)), c)
    ELSE <<s>>

\* s.split(): split on runs of whitespace, no empty parts
RECURSIVE split_from(_, _, _)
split_from(s, cur, out) ==
    IF Len(s) = 0 THEN (IF Len(cur) = 0 THEN out ELSE Append(out, cur))
    ELSE IF Head(s) = " "
         THEN split_from(Tail(s), <<>>, IF Len(cur) = 0 THEN out ELSE Append(out, cur))
         ELSE split_from(Tail(s), Append(cur, Head(s)), out)

split(s) == split_from(s, <<>>, <<>>)

\* " ".join(tokens)
RECURSIVE join(_)
join(toks) ==
    IF Len(toks) = 0 THEN <<>>
    ELSE IF Len(toks) = 1 THEN toks[1]
    ELSE toks[1] \o <<" ">> \o join(Tail(toks))

startswith(s, p) == Len(s) >= Len(p) /\ SubSeq(s, 1, Len(p)) = p

endswith(s, c) == Len(s) > 0 /\ s[Len(s)] = c

Digits == {"0", "1", "2", "3", "4", "5", "6", "7", "8", "9"}

\* str.isdigit(): non-empty and every character a digit
isdigit(s) == Len(s) > 0 /\ \A i \in 1..Len(s) : s[i] \in Digits

DigitVal(c) ==
    CASE c = "0" -> 0 [] c = "1" -> 1 [] c = "2" -> 2 [] c = "3" -> 3 [] c = "4" -> 4
      [] c = "5" -> 5 [] c = "6" -> 6 [] c = "7" -> 7 [] c = "8" -> 8 [] c = "9" -> 9

\* int(s) for a digit string
RECURSIVE int(_)
int(s) == IF Len(s) = 0 THEN 0 ELSE 10 * int(SubSeq(s, 1, Len(s) - 1)) + DigitVal(s[Len(s)])

\* itertools pairwise: (s0,s1), (s1,s2), ...
pairwise(seq) == [i \in 1..(Len(seq) - 1) |-> <<seq[i], seq[i + 1]>>]

(***************************************************************************)
(* Tagged dict values                                                      *)
(***************************************************************************)
VStr(s) == [ty |-> "str", v |-> s]
VList(l) == [ty |-> "list", v |-> l]
VDt(t, aware) == [ty |-> "dt", v |-> <<t, aware>>]
VInt(n) == [ty |-> "int", v |-> n]
None == [ty |-> "none", v |-> <<>>]
Unset == [ty |-> "unset", v |-> <<>>]

has(d, k) == k \in DOMAIN d

\* d.get(k)
get(d, k) == IF has(d, k) THEN d[k] ELSE None

\* d[k] = v
put(d, k, v) == [x \in (DOMAIN d) \cup {k} |-> IF x = k THEN v ELSE d[x]]

EmptyDict == [x \in {} |-> None]

Range(seq) == {seq[i] : i \in 1..Len(seq)}

\* the sequence seq without the elements outside keep, order kept
RECURSIVE filter_seq(_, _)
filter_seq(seq, keep) ==
    IF Len(seq) = 0 THEN <<>>
    ELSE IF Head(seq) \in keep THEN <<Head(seq)>> \o filter_seq(Tail(seq), keep)
    ELSE filter_seq(Tail(seq), keep)

(***************************************************************************)
(* Module constants (30-second units)                                      *)
(***************************************************************************)
\* OLD_LOGS = timedelta(minutes=10)
OLD_LOGS == 20

\* self.cleanup_interval = timedelta(minutes=1)
cleanup_interval == 2

\* dict key of a field whose name is one word
K(name) == <<name>>

KeyError(k) == [type |-> "KeyError", arg |-> k]
IndexError == [type |-> "IndexError", arg |-> <<>>]
AttributeError == [type |-> "AttributeError", arg |-> <<>>]
TypeError == [type |-> "TypeError", arg |-> <<>>]

(***************************************************************************)
(* datetime.datetime.fromisoformat, reduced to what the parser depends on: *)
(* the token parses or not, the instant it denotes, and whether it carries *)
(* a UTC offset.  A timestamp token is written "T" digits ["+"]: with "+"  *)
(* it has an offset (aware), without it has none (naive).                  *)
(***************************************************************************)
fromisoformat(tok) ==
    LET aware == endswith(tok, "+")
        digits == IF aware THEN SubSeq(tok, 2, Len(tok) - 1) ELSE SubSeq(tok, 2, Len(tok))
    IN  IF Len(tok) >= 2 /\ tok[1] = "T" /\ isdigit(digits)
        THEN [ok |-> TRUE, value |-> VDt(int(digits), aware)]
        ELSE [ok |-> FALSE, value |-> None]

(***************************************************************************)
(* class PostfixEvent                                                      *)
(***************************************************************************)
get_domain(mail) ==
    LET tokens == split_once(mail, "@")
    IN  IF Len(tokens) = 2 THEN tokens[2] ELSE mail

\* fromkeys with the deduplication left out
fromkeys_keep_all(seq, out) == out \o seq

\* list(dict.fromkeys(seq)): duplicates dropped, first-seen order kept
RECURSIVE fromkeys(_, _)
fromkeys(seq, out) ==
    IF Len(seq) = 0 THEN out
    ELSE fromkeys(Tail(seq), IF Head(seq) \in Range(out) THEN out ELSE Append(out, Head(seq)))

is_status_code(status) ==
    Len(status) = 3 /\ \A i \in 1..Len(status) : status[i] \in Digits

is_postfix_status_code(status) ==
    LET tokens == split_all(status, ".")
    IN  Len(tokens) = 3 /\ \A i \in 1..Len(tokens) : isdigit(tokens[i])

\* the for loop of parse_status_code over pairs[i..]; acc holds the two
\* attributes as assigned so far
RECURSIVE parse_status_code_loop(_, _, _)
parse_status_code_loop(pairs, i, acc) ==
    IF i > Len(pairs) THEN acc
    ELSE IF ~is_status_code(pairs[i][1]) \/ ~is_postfix_status_code(pairs[i][2])
         THEN parse_status_code_loop(pairs, i + 1, acc)
         ELSE parse_status_code_loop(pairs, i + 1,
                  [status_code |-> VInt(int(pairs[i][1])),
                   status_postfix_code |-> VStr(pairs[i][2])])

parse_status_code(status_description) ==
    parse_status_code_loop(pairwise(split(status_description)), 1,
                           [status_code |-> Unset, status_postfix_code |-> Unset])

\* the keys __init__ subscripts, in the order it reads them
RequiredKeys ==
    <<K("timestamp"), K("from"), K("to"), K("message-id"), K("status"),
      K("status_description"), K("raw_log")>>

MissingKeys(obj) == {i \in 1..Len(RequiredKeys) : ~has(obj, RequiredKeys[i])}

FirstMissing(obj) ==
    RequiredKeys[CHOOSE i \in MissingKeys(obj) : \A j \in MissingKeys(obj) : i <= j]

\* PostfixEvent(queue_id, obj): the event, or the KeyError of the first
\* required key that obj lacks
PostfixEvent(queue_id, obj) ==
    IF MissingKeys(obj) /= {}
    THEN [ok |-> FALSE, err |-> KeyError(FirstMissing(obj)), event |-> None]
    ELSE
      LET message_from == strip(obj[K("from")].v, {"<", ">"})
          message_to == [i \in 1..Len(obj[K("to")].v) |-> strip(obj[K("to")].v[i], {"<", ">"})]
          codes == parse_status_code(obj[K("status_description")].v)
      IN  [ok |-> TRUE, err |-> None,
           event |->
             [timestamp |-> obj[K("timestamp")],
              queue_id |-> queue_id,
              message_from |-> message_from,
              message_to |-> message_to,
              message_id |-> strip(obj[K("message-id")].v, {"<", ">"}),
              status |-> obj[K("status")].v,
              status_description |-> obj[K("status_description")].v,
              raw_log |-> obj[K("raw_log")].v,
              domain_from |-> get_domain(message_from),
              domains_to |-> fromkeys([i \in 1..Len(message_to) |-> get_domain(message_to[i])], <<>>),
              status_code |-> codes.status_code,
              status_postfix_code |-> codes.status_postfix_code,
              dovecot_fileinto_action |-> get(obj, K("dovecot_fileinto_action")),
              message_subject |-> get(obj, K("subject")),
              client |-> get(obj, K("client")),
              orig_to |-> get(obj, K("orig_to")),
              delay |-> get(obj, K("delay")),
              delays |-> get(obj, K("delays")),
              dsn |-> get(obj, K("dsn")),
              nrcpt |-> get(obj, K("nrcpt")),
              relay |-> get(obj, K("relay")),
              size |-> get(obj, K("size"))]]

(***************************************************************************)
(* email.header.decode_header(token)[0] for a token of the header value.   *)
(* The token is a symbol sequence in which "=", "?" and the characters of  *)
(* the charset and of the encoding are single symbols, and the payload of  *)
(* a base64 word is written as groups, one symbol for four characters.     *)
(* Bytes are symbol sequences too; InvalidByte stands for a byte that is   *)
(* not valid UTF-8.                                                        *)
(***************************************************************************)
InvalidByte == "\\xff"

B64Groups == {"dGVz", "dA==", "/w=="}

\* the bytes of one group of four base64 characters
B64Group(g) ==
    CASE g = "dGVz" -> <<"t", "e", "s">>
      [] g = "dA==" -> <<"t">>
      [] g = "/w==" -> <<InvalidByte>>

\* a group that ends in padding ends the data; what follows it is ignored
B64Padded(g) == g \in {"dA==", "/w=="}

\* email.base64mime.decode on a payload of whole groups
RECURSIVE b64decode(_)
b64decode(payload) ==
    IF Len(payload) = 0 THEN <<>>
    ELSE IF B64Padded(Head(payload)) THEN B64Group(Head(payload))
    ELSE B64Group(Head(payload)) \o b64decode(Tail(payload))

\* email.quoprimime.header_decode on a payload without =XX escapes
header_decode(payload) ==
    [i \in 1..Len(payload) |-> IF payload[i] = "_" THEN " " ELSE payload[i]]

\* str.lower() on the characters of a charset or an encoding
lower_char(c) ==
    CASE c = "U" -> "u" [] c = "T" -> "t" [] c = "F" -> "f" [] c = "B" -> "b"
      [] c = "Q" -> "q" [] OTHER -> c

lower(s) == [i \in 1..Len(s) |-> lower_char(s[i])]

NoMatch == [ok |-> FALSE, charset |-> <<>>, encoding |-> "", encoded |-> <<>>, stop |-> 0]

\* the least position of a set of positions, 0 when the set is empty
first_pos(ps) == IF ps = {} THEN 0 ELSE CHOOSE x \in ps : \A y \in ps : x <= y

\* ecre at position i with the charset ending before j: the closing "?=" at k
ecre_encoded(tok, i, j, k) ==
    IF k = 0 THEN NoMatch
    ELSE [ok |-> TRUE,
          charset |-> SubSeq(tok, i + 2, j - 1),
          encoding |-> tok[j + 1],
          encoded |-> SubSeq(tok, j + 3, k - 1),
          stop |-> k + 1]

\* ecre at position i with the charset ending before j: "?" [qQbB] "?" and
\* the encoded part up to the next "?="
ecre_encoding(tok, i, j) ==
    IF j = 0 THEN NoMatch
    ELSE IF ~(j + 2 <= Len(tok) /\ tok[j + 1] \in {"q", "Q", "b", "B"} /\ tok[j + 2] = "?")
    THEN NoMatch
    ELSE ecre_encoded(tok, i, j,
             first_pos({k \in (j + 3)..(Len(tok) - 1) : tok[k] = "?" /\ tok[k + 1] = "="}))

\* ecre matched at position i: "=?" charset "?" [qQbB] "?" encoded "?=", the
\* charset up to the next "?", the encoded part up to the next "?="
ecre_match(tok, i) ==
    IF ~(i + 1 <= Len(tok) /\ tok[i] = "=" /\ tok[i + 1] = "?") THEN NoMatch
    ELSE ecre_encoding(tok, i, first_pos({j \in (i + 2)..Len(tok) : tok[j] = "?"}))

RECURSIVE ecre_words(_, _, _)

\* the words of decode_header from position i on, mt being ecre_match(tok, i)
ecre_words_at(tok, i, u, mt) ==
    IF mt.ok
    THEN (IF u < i
          THEN <<[text |-> SubSeq(tok, u, i - 1), encoding |-> "", charset |-> <<>>]>>
          ELSE <<>>)
         \o <<[text |-> mt.encoded, encoding |-> lower_char(mt.encoding),
               charset |-> lower(mt.charset)]>>
         \o ecre_words(tok, mt.stop + 1, mt.stop + 1)
    ELSE ecre_words(tok, i + 1, u)

\* the words of decode_header: ecre.split from position i on, u the start of
\* the unencoded text not yet emitted; empty unencoded parts are left out
ecre_words(tok, i, u) ==
    IF i > Len(tok)
    THEN IF u <= Len(tok)
         THEN <<[text |-> SubSeq(tok, u, Len(tok)), encoding |-> "", charset |-> <<>>]>>
         ELSE <<>>
    ELSE ecre_words_at(tok, i, u, ecre_match(tok, i))

\* the bytes of a word after the reverse base64 or quoted-printable transformation
decoded_word(w) ==
    IF w.encoding = "b" THEN b64decode(w.text)
    ELSE IF w.encoding = "q" THEN header_decode(w.text)
    ELSE w.text

\* the first entry of the collapsed list: word 1 and the words that follow it
\* with the same charset, their bytes concatenated
RECURSIVE collapse_first(_, _)
collapse_first(words, n) ==
    IF n > Len(words) \/ words[n].encoding = "" \/ words[n].charset /= words[1].charset
    THEN <<>>
    ELSE decoded_word(words[n]) \o collapse_first(words, n + 1)

\* the first entry of the list decode_header builds from the words of tok:
\* (str, None) when the token holds no encoded word, (bytes, None) when it
\* begins with unencoded text, else (bytes, charset)
first_entry(tok, words) ==
    IF \A n \in 1..Len(words) : words[n].encoding = ""
    THEN [ty |-> "str", v |-> tok, encoding |-> <<>>]
    ELSE IF words[1].encoding = ""
    THEN [ty |-> "bytes", v |-> words[1].text, encoding |-> <<>>]
    ELSE [ty |-> "bytes", v |-> collapse_first(words, 1), encoding |-> words[1].charset]

\* decode_header(tok)[0]
decode_header_first(tok) == first_entry(tok, ecre_words(tok, 1, 1))

LookupError == [type |-> "LookupError", arg |-> <<>>]
UnicodeDecodeError == [type |-> "UnicodeDecodeError", arg |-> <<>>]

\* subject.decode(encoding) on the pair that decode_header_first returned
subject_decode(d) ==
    IF d.ty = "str" THEN [ok |-> FALSE, err |-> AttributeError, text |-> <<>>]
    ELSE IF d.encoding = <<>> THEN [ok |-> FALSE, err |-> TypeError, text |-> <<>>]
    ELSE IF d.encoding /= <<"u", "t", "f", "-", "8">>
    THEN [ok |-> FALSE, err |-> LookupError, text |-> <<>>]
    ELSE IF \E n \in 1..Len(d.v) : d.v[n] = InvalidByte
    THEN [ok |-> FALSE, err |-> UnicodeDecodeError, text |-> <<>>]
    ELSE [ok |-> TRUE, err |-> None, text |-> d.v]

(***************************************************************************)
(* class PostfixLogParser                                                  *)
(***************************************************************************)
QueueIdChars ==
    {"0", "1", "2", "3", "4", "5", "6", "7", "8", "9", "A", "B", "C", "D", "E", "F"}

is_queue_id(maybe_queue_id) ==
    IF Len(maybe_queue_id) /= 11 + 1 THEN FALSE
    ELSE \A i \in 1..(Len(maybe_queue_id) - 1) : maybe_queue_id[i] \in QueueIdChars

\* ts - val["timestamp"] is defined only for an offset-aware datetime
Subtractable(val) ==
    /\ has(val, K("timestamp"))
    /\ val[K("timestamp")].ty = "dt"
    /\ val[K("timestamp")].v[2]

Age(ts, val) == ts - val[K("timestamp")].v[1]

\* the statements of _cleanup_old_entities after the early return
cleanup_body(S, O, ts) ==
    IF \E k \in DOMAIN S : ~Subtractable(S[k])
    THEN [state |-> S, order |-> O, next_cleanup |-> ts + cleanup_interval,
          raised |-> TRUE, fired |-> TRUE]
    ELSE LET keep == {k \in DOMAIN S : Age(ts, S[k]) < OLD_LOGS}
         IN  [state |-> [k \in keep |-> S[k]],
              order |-> filter_seq(O, keep),
              next_cleanup |-> ts + cleanup_interval,
              raised |-> FALSE, fired |-> TRUE]

\* _cleanup_old_entities without the early return
cleanup_old_entities_unscheduled(S, O, nc, ts) == cleanup_body(S, O, ts)

\* _cleanup_old_entities with now() = ts.  raised: the dict comprehension
\* raised, after next_cleanup was assigned and before state was.  fired: the
\* call went past the early return.
cleanup_old_entities(S, O, nc, ts) ==
    IF nc > ts
    THEN [state |-> S, order |-> O, next_cleanup |-> nc, raised |-> FALSE, fired |-> FALSE]
    ELSE cleanup_body(S, O, ts)

NoneIdx == -1

\* the for loop of _set_fields from token index idx (0-based) on
RECURSIVE set_fields_loop(_, _, _, _)
set_fields_loop(entry, tokens, idx, status_idx) ==
    IF idx >= Len(tokens) THEN [entry |-> entry, status_idx |-> status_idx]
    ELSE LET token == tokens[idx + 1]
         IN  IF contains(token, "=")
             THEN LET name == split_once(token, "=")[1]
                      value == rstrip(split_once(token, "=")[2], {","})
                      sidx == IF name = K("status") THEN idx ELSE status_idx
                      prev == IF has(entry, name) THEN entry[name].v ELSE <<>>
                  IN  IF name = K("to")
                      THEN set_fields_loop(put(entry, name, VList(prev \o <<value>>)),
                                           tokens, idx + 1, sidx)
                      ELSE set_fields_loop(put(entry, name, VStr(value)),
                                           tokens, idx + 1, sidx)
             ELSE set_fields_loop(entry, tokens, idx + 1, status_idx)

\* _set_fields treating a status token at index 1 as absent, like one at index 0
set_fields_from_two(entry, tokens) ==
    LET r == set_fields_loop(entry, tokens, 0, NoneIdx)
    IN  IF r.status_idx /= NoneIdx /\ r.status_idx > 1
        THEN put(r.entry, K("status_description"),
                 VStr(rstrip(lstrip(join(SubSeq(tokens, r.status_idx + 2, Len(tokens))),
                                    {"("}), {")"})))
        ELSE r.entry

\* _set_fields(entry, tokens); "if status_idx:" is false for None and for 0
set_fields(entry, tokens) ==
    LET r == set_fields_loop(entry, tokens, 0, NoneIdx)
    IN  IF r.status_idx /= NoneIdx /\ r.status_idx /= 0
        THEN put(r.entry, K("status_description"),
                 VStr(rstrip(lstrip(join(SubSeq(tokens, r.status_idx + 2, Len(tokens))),
                                    {"("}), {")"})))
        ELSE r.entry

\* the literal-subject loop: tokens before the pair ("from", "...;")
RECURSIVE subject_loop(_, _, _)
subject_loop(pairs, i, subject) ==
    IF i > Len(pairs) THEN subject
    ELSE IF pairs[i][1] = <<"from">> /\ endswith(pairs[i][2], ";") THEN subject
    ELSE subject_loop(pairs, i + 1, Append(subject, pairs[i][1]))

MimePrefix == <<"=", "?", "U", "T", "F", "-", "8">>

\* the branch of _try_to_parse_subject for an encoded subject, d being what
\* subject.decode(encoding) gave
encoded_subject(S, queue_id, d) ==
    IF ~d.ok
    THEN [raised |-> TRUE, err |-> d.err, handled |-> FALSE, state |-> S]
    ELSE [raised |-> FALSE, err |-> None, handled |-> TRUE,
          state |-> [S EXCEPT ![queue_id] = put(@, K("subject"), VStr(d.text))]]

\* the branch of _try_to_parse_subject for a literal subject
literal_subject(S, queue_id, tokens) ==
    [raised |-> FALSE, err |-> None, handled |-> TRUE,
     state |-> [S EXCEPT ![queue_id] =
                  put(@, K("subject"),
                      VStr(join(subject_loop(pairwise(SubSeq(tokens, 4, Len(tokens))), 1, <<>>))))]]

\* _try_to_parse_subject returning False after it stored the subject
try_to_parse_subject_unhandled(S, queue_id, tokens) ==
    LET c0 == tokens[1] = <<"warning:">>
        c1 == c0 /\ Len(tokens) >= 2 /\ tokens[2] = <<"header">>
        c2 == c1 /\ Len(tokens) >= 3 /\ tokens[3] = <<"Subject:">>
        raises == \/ c0 /\ Len(tokens) < 2
                  \/ c1 /\ Len(tokens) < 3
                  \/ c2 /\ Len(tokens) < 4
    IN  IF raises THEN [raised |-> TRUE, err |-> IndexError, handled |-> FALSE, state |-> S]
        ELSE IF ~c2 THEN [raised |-> FALSE, err |-> None, handled |-> FALSE, state |-> S]
        ELSE IF startswith(tokens[4], MimePrefix)
        THEN LET d == subject_decode(decode_header_first(tokens[4]))
             IN  IF ~d.ok
                 THEN [raised |-> TRUE, err |-> d.err, handled |-> FALSE, state |-> S]
                 ELSE [raised |-> FALSE, err |-> None, handled |-> FALSE,
                       state |-> [S EXCEPT ![queue_id] = put(@, K("subject"), VStr(d.text))]]
        ELSE LET subject == subject_loop(pairwise(SubSeq(tokens, 4, Len(tokens))), 1, <<>>)
             IN  [raised |-> FALSE, err |-> None, handled |-> FALSE,
                  state |-> [S EXCEPT ![queue_id] = put(@, K("subject"), VStr(join(subject)))]]

\* _try_to_parse_subject(queue_id, tokens); tokens are the content tokens
try_to_parse_subject(S, queue_id, tokens) ==
    IF tokens[1] /= <<"warning:">>
    THEN [raised |-> FALSE, err |-> None, handled |-> FALSE, state |-> S]
    ELSE IF Len(tokens) < 2
    THEN [raised |-> TRUE, err |-> IndexError, handled |-> FALSE, state |-> S]
    ELSE IF tokens[2] /= <<"header">>
    THEN [raised |-> FALSE, err |-> None, handled |-> FALSE, state |-> S]
    ELSE IF Len(tokens) < 3
    THEN [raised |-> TRUE, err |-> IndexError, handled |-> FALSE, state |-> S]
    ELSE IF tokens[3] /= <<"Subject:">>
    THEN [raised |-> FALSE, err |-> None, handled |-> FALSE, state |-> S]
    ELSE IF Len(tokens) < 4
    THEN [raised |-> TRUE, err |-> IndexError, handled |-> FALSE, state |-> S]
    ELSE IF startswith(tokens[4], MimePrefix)
    THEN encoded_subject(S, queue_id, subject_decode(decode_header_first(tokens[4])))
    ELSE literal_subject(S, queue_id, tokens)

\* _handle_special_postfix_cases with the error of the event builder swallowed
handle_special_postfix_cases_silent(S, O, queue_id, tokens) ==
    IF tokens[1] = <<"removed">>
    THEN LET built == PostfixEvent(queue_id, S[queue_id])
         IN  IF ~built.ok
             THEN [raised |-> FALSE, err |-> None, handled |-> TRUE,
                   state |-> S, order |-> O, emitted |-> <<>>]
             ELSE [raised |-> FALSE, err |-> None, handled |-> TRUE,
                   state |-> [k \in (DOMAIN S) \ {queue_id} |-> S[k]],
                   order |-> filter_seq(O, (DOMAIN S) \ {queue_id}),
                   emitted |-> <<built.event>>]
    ELSE LET sub == try_to_parse_subject(S, queue_id, tokens)
         IN  [raised |-> sub.raised, err |-> sub.err, handled |-> sub.handled,
              state |-> sub.state, order |-> O, emitted |-> <<>>]

\* _handle_special_postfix_cases with the record deleted before the event is built
handle_special_postfix_cases_del_first(S, O, queue_id, tokens) ==
    IF tokens[1] = <<"removed">>
    THEN LET built == PostfixEvent(queue_id, S[queue_id])
         IN  [raised |-> ~built.ok,
              err |-> built.err,
              handled |-> built.ok,
              state |-> [k \in (DOMAIN S) \ {queue_id} |-> S[k]],
              order |-> filter_seq(O, (DOMAIN S) \ {queue_id}),
              emitted |-> IF built.ok THEN <<built.event>> ELSE <<>>]
    ELSE LET sub == try_to_parse_subject(S, queue_id, tokens)
         IN  [raised |-> sub.raised, err |-> sub.err, handled |-> sub.handled,
              state |-> sub.state, order |-> O, emitted |-> <<>>]

\* _handle_special_postfix_cases with the whole store emptied on completion
handle_special_postfix_cases_clear(S, O, queue_id, tokens) ==
    IF tokens[1] = <<"removed">>
    THEN LET built == PostfixEvent(queue_id, S[queue_id])
         IN  IF ~built.ok
             THEN [raised |-> TRUE, err |-> built.err, handled |-> FALSE,
                   state |-> S, order |-> O, emitted |-> <<>>]
             ELSE [raised |-> FALSE, err |-> None, handled |-> TRUE,
                   state |-> EmptyDict, order |-> <<>>, emitted |-> <<built.event>>]
    ELSE LET sub == try_to_parse_subject(S, queue_id, tokens)
         IN  [raised |-> sub.raised, err |-> sub.err, handled |-> sub.handled,
              state |-> sub.state, order |-> O, emitted |-> <<>>]

\* _handle_special_postfix_cases without the del of the completed record
handle_special_postfix_cases_keep(S, O, queue_id, tokens) ==
    IF tokens[1] = <<"removed">>
    THEN LET built == PostfixEvent(queue_id, S[queue_id])
         IN  IF ~built.ok
             THEN [raised |-> TRUE, err |-> built.err, handled |-> FALSE,
                   state |-> S, order |-> O, emitted |-> <<>>]
             ELSE [raised |-> FALSE, err |-> None, handled |-> TRUE,
                   state |-> S, order |-> O, emitted |-> <<built.event>>]
    ELSE LET sub == try_to_parse_subject(S, queue_id, tokens)
         IN  [raised |-> sub.raised, err |-> sub.err, handled |-> sub.handled,
              state |-> sub.state, order |-> O, emitted |-> <<>>]

\* _handle_special_postfix_cases(queue_id, tokens)
handle_special_postfix_cases(S, O, queue_id, tokens) ==
    IF tokens[1] = <<"removed">>
    THEN LET built == PostfixEvent(queue_id, S[queue_id])
         IN  IF ~built.ok
             THEN [raised |-> TRUE, err |-> built.err, handled |-> FALSE,
                   state |-> S, order |-> O, emitted |-> <<>>]
             ELSE [raised |-> FALSE, err |-> None, handled |-> TRUE,
                   state |-> [k \in (DOMAIN S) \ {queue_id} |-> S[k]],
                   order |-> filter_seq(O, (DOMAIN S) \ {queue_id}),
                   emitted |-> <<built.event>>]
    ELSE LET sub == try_to_parse_subject(S, queue_id, tokens)
         IN  [raised |-> sub.raised, err |-> sub.err, handled |-> sub.handled,
              state |-> sub.state, order |-> O, emitted |-> <<>>]

MsgidPrefix == <<"msgid", "=">>

\* _handle_dovecot_case with the trailing delimiter of the msgid left on
handle_dovecot_case_keep_colon(S, tokens) ==
    LET c4 == tokens[5] = <<"Info:">>
        c5 == c4 /\ Len(tokens) >= 6 /\ tokens[6] = <<"sieve:">>
        c6 == c5 /\ Len(tokens) >= 7 /\ startswith(tokens[7], MsgidPrefix)
        c7 == c6 /\ Len(tokens) >= 8 /\ tokens[8] = <<"fileinto">>
        c8 == c7 /\ Len(tokens) >= 9 /\ tokens[9] = <<"action:">>
        raises == \/ c4 /\ Len(tokens) < 6
                  \/ c5 /\ Len(tokens) < 7
                  \/ c6 /\ Len(tokens) < 8
                  \/ c7 /\ Len(tokens) < 9
    IN  IF raises THEN [raised |-> TRUE, state |-> S]
        ELSE IF ~c8 THEN [raised |-> FALSE, state |-> S]
        ELSE LET msgid == split_once(tokens[7], "=")[2]
                 action == VStr(join(SubSeq(tokens, 10, Len(tokens))))
                 hit(entry) == get(entry, K("message-id")).ty = "str"
                               /\ get(entry, K("message-id")).v = msgid
             IN  [raised |-> FALSE,
                  state |-> [k \in DOMAIN S |->
                               IF hit(S[k])
                               THEN put(S[k], K("dovecot_fileinto_action"), action)
                               ELSE S[k]]]

\* _handle_dovecot_case(tokens): always returns False; raised tells that
\* the condition indexed past the end of the token list
handle_dovecot_case(S, tokens) ==
    LET c4 == tokens[5] = <<"Info:">>
        c5 == c4 /\ Len(tokens) >= 6 /\ tokens[6] = <<"sieve:">>
        c6 == c5 /\ Len(tokens) >= 7 /\ startswith(tokens[7], MsgidPrefix)
        c7 == c6 /\ Len(tokens) >= 8 /\ tokens[8] = <<"fileinto">>
        c8 == c7 /\ Len(tokens) >= 9 /\ tokens[9] = <<"action:">>
        raises == \/ c4 /\ Len(tokens) < 6
                  \/ c5 /\ Len(tokens) < 7
                  \/ c6 /\ Len(tokens) < 8
                  \/ c7 /\ Len(tokens) < 9
    IN  IF raises THEN [raised |-> TRUE, state |-> S]
        ELSE IF ~c8 THEN [raised |-> FALSE, state |-> S]
        ELSE LET rest == split_once(tokens[7], "=")[2]
                 msgid == SubSeq(rest, 1, Len(rest) - 1)
                 action == VStr(join(SubSeq(tokens, 10, Len(tokens))))
                 hit(entry) == get(entry, K("message-id")).ty = "str"
                               /\ get(entry, K("message-id")).v = msgid
             IN  [raised |-> FALSE,
                  state |-> [k \in DOMAIN S |->
                               IF hit(S[k])
                               THEN put(S[k], K("dovecot_fileinto_action"), action)
                               ELSE S[k]]]

Result(S, O, emitted, fault) == [state |-> S, order |-> O, emitted |-> emitted, fault |-> fault]

\* the end of the try block: sp is what _handle_special_postfix_cases
\* returned for the record entry of queue_id in the store (S, O)
feed_fields(S, O, s, queue_id, entry, sp) ==
    IF sp.raised THEN Result(sp.state, sp.order, <<>>, <<<<s, sp.err>>>>)
    ELSE IF sp.handled THEN Result(sp.state, sp.order, sp.emitted, <<>>)
    ELSE Result([S EXCEPT ![queue_id] = set_fields(entry, s)], O, <<>>, <<>>)

\* the try block from _handle_special_postfix_cases on, entry being the
\* record of queue_id with the line and the timestamp already stored
feed_special(S, O, s, queue_id, entry) ==
    feed_fields([S EXCEPT ![queue_id] = entry], O, s, queue_id, entry,
                handle_special_postfix_cases([S EXCEPT ![queue_id] = entry], O, queue_id,
                                             SubSeq(s, 5, Len(s))))

\* self.state[queue_id]["raw_log"].append(s), after setdefault("raw_log", [])
append_raw_log(entry, s) ==
    IF ~has(entry, K("raw_log"))
    THEN put(entry, K("raw_log"), VList(<<s>>))
    ELSE put(entry, K("raw_log"), VList(Append(entry[K("raw_log")].v, s)))

\* self.state[queue_id].setdefault("timestamp", timestamp)
setdefault_timestamp(entry, tok) ==
    IF ~has(entry, K("timestamp"))
    THEN put(entry, K("timestamp"), fromisoformat(tok).value)
    ELSE entry

\* the try block once the record of queue_id exists in the store (S, O)
feed_record(S, O, s, queue_id) ==
    IF has(S[queue_id], K("raw_log")) /\ S[queue_id][K("raw_log")].ty /= "list"
    THEN Result(S, O, <<>>, <<<<s, AttributeError>>>>)
    ELSE feed_special(S, O, s, queue_id,
                      setdefault_timestamp(append_raw_log(S[queue_id], s), s[1]))

\* the try block after the queue id check: setdefault(queue_id, {})
feed_queue_id(S, O, s, queue_id) ==
    IF queue_id \notin DOMAIN S
    THEN feed_record(put(S, queue_id, EmptyDict), Append(O, queue_id), s, queue_id)
    ELSE feed_record(S, O, s, queue_id)

\* the try block after _handle_dovecot_case, dv being what it returned
feed_primary(O, s, dv) ==
    IF dv.raised THEN Result(dv.state, O, <<>>, <<<<s, IndexError>>>>)
    ELSE IF ~fromisoformat(s[1]).ok THEN Result(dv.state, O, <<>>, <<>>)
    ELSE IF ~is_queue_id(s[4]) THEN Result(dv.state, O, <<>>, <<>>)
    ELSE feed_queue_id(dv.state, O, s, SubSeq(s[4], 1, Len(s[4]) - 1))

\* the try block of feed_line on the store (S, O) left by the sweep; s is
\* the token list s.split()
feed_body(S, O, s) ==
    IF Len(s) < 5 THEN Result(S, O, <<>>, <<>>)
    ELSE feed_primary(O, s, handle_dovecot_case(S, s))

(***************************************************************************)
(* Bounds of the model                                                     *)
(***************************************************************************)
\* the clock reading (30-second units) at which the parser is constructed
StartClock == 20

\* feed_line is not called at a clock reading later than StartClock + MaxElapsed
MaxElapsed == 4

\* number of feed_line calls in a run
MaxFeeds == 4

\* time that passes between two clock readings
Advance == {0, 1, 2}

(***************************************************************************)
(* The parser object and its sink                                          *)
(*   state, order   self.state: the dict and its insertion order           *)
(*   next_cleanup   self.next_cleanup                                      *)
(*   clock          the latest value returned by now()                     *)
(*   events         the arguments of the on_event calls so far             *)
(*   faults         the arguments (s, e) of the on_fault calls so far      *)
(*   last, ret      argument and outcome of the latest feed_line call      *)
(*   nfeeds         number of feed_line calls so far                       *)
(*   last_sweep     the value of now() in the latest sweep that went past  *)
(*                  its early return; NoSweep before the first one         *)
(*   evicted        the queue ids whose record a sweep has deleted so far  *)
(***************************************************************************)
NoSweep == -1

\* PostfixLogParser.__init__
Init ==
    /\ state = EmptyDict
    /\ order = <<>>
    /\ clock = StartClock
    /\ next_cleanup = StartClock + cleanup_interval
    /\ events = <<>>
    /\ faults = <<>>
    /\ last = <<>>
    /\ ret = "none"
    /\ nfeeds = 0
    /\ last_sweep = NoSweep
    /\ evicted = {}

\* the outcome of feed_line(s) at now() = ts: sw is what the sweep returned,
\* r what the try block returned on the store the sweep left
feed_outcome(s, ts, sw, r) ==
    /\ clock' = ts
    /\ next_cleanup' = sw.next_cleanup
    /\ last' = s
    /\ nfeeds' = nfeeds + 1
    /\ last_sweep' = (IF sw.fired THEN ts ELSE last_sweep)
    /\ evicted' = evicted \cup ((DOMAIN state) \ (DOMAIN sw.state))
    /\ IF sw.raised
       THEN /\ ret' = "raised"
            /\ UNCHANGED <<state, order, events, faults>>
       ELSE /\ ret' = "returned"
            /\ state' = r.state
            /\ order' = r.order
            /\ events' = events \o r.emitted
            /\ faults' = faults \o r.fault

\* feed_line(s) after the sweep, sw being what _cleanup_old_entities returned
feed_swept(s, ts, sw) == feed_outcome(s, ts, sw, feed_body(sw.state, sw.order, s))

\* feed_line(s), called when now() has advanced by d
feed_line(s, d) ==
    /\ nfeeds < MaxFeeds
    /\ clock + d <= StartClock + MaxElapsed
    /\ feed_swept(s, clock + d, cleanup_old_entities(state, order, next_cleanup, clock + d))

(***************************************************************************)
(* Input lines                                                             *)
(***************************************************************************)
Host == <<"h">>
Proc == <<"p:">>

\* a 12-character token: eleven times c, then e
QueueToken(c, e) == [i \in 1..12 |-> IF i = 12 THEN e ELSE c]

QX == QueueToken("A", ":")
QY == QueueToken("B", ":")
X == SubSeq(QX, 1, 11)
Y == SubSeq(QY, 1, 11)

TsAware2 == <<"T", "2", "+">>
TsAware3 == <<"T", "3", "+">>
TsNaive2 == <<"T", "2">>

tFrom == <<"from", "=", "<", "a", "@", "x", ">", ",">>
tMsgid == <<"message-id", "=", "<", "m", ">">>
tTo(u, dom) == <<"to", "=", "<", u, "@", dom, ">", ",">>
tStatus == <<"status", "=", "sent">>
tDesc == <<<<"(", "2", "5", "0">>, <<"2", ".", "0", ".", "0">>, <<"o", "k", ")">>>>
tRawLog == <<"raw_log", "=", "z">>

Ln(ts, q, content) == <<ts, Host, Proc, q>> \o content

cHeader == <<tFrom, tMsgid>>
cDeliver(u, dom) == <<tTo(u, dom), tStatus>> \o tDesc
cRemoved == <<<<"removed">>>>

LinesTxn ==
    {Ln(TsAware3, QX, cHeader), Ln(TsNaive2, QX, cHeader),
     Ln(TsAware3, QX, cDeliver("b", "y")),
     Ln(TsAware3, QX, cRemoved),
     Ln(TsAware3, QX, <<tRawLog>>),
     Ln(TsAware2, QY, cRemoved)}

NextTxn == \E s \in LinesTxn, d \in Advance : feed_line(s, d)

SpecTxn == Init /\ [][NextTxn]_vars

\* lines for the sweeper: an old record, a fresh one, a record whose first
\* line has no UTC offset, and a line of one token
TsAware1 == <<"T", "1", "+">>
TsAware5 == <<"T", "5", "+">>
TsNaive1 == <<"T", "1">>

LinesSweep ==
    {Ln(TsAware1, QX, cHeader), Ln(TsAware5, QY, cHeader), Ln(TsNaive1, QY, cHeader),
     <<<<"LINE">>>>, Ln(TsAware5, QX, cRemoved)}

NextSweep == \E s \in LinesSweep, d \in Advance : feed_line(s, d)

SpecSweep == Init /\ [][NextSweep]_vars

\* lines for the classifier and the cross-correlator
cFull(u, dom) == <<tFrom, tMsgid, tTo(u, dom), tStatus>> \o tDesc

tMsgidArg(m) == <<"msgid", "=", "<", m, ">", ":">>

\* <syslog-style timestamp> <service>: Info: sieve: msgid=<m>: fileinto action: ...
Dovecot(m) ==
    <<<<"Apr">>, <<"30">>, <<"15:09:27">>, <<"lmtp:">>, <<"Info:">>, <<"sieve:">>,
      tMsgidArg(m), <<"fileinto">>, <<"action:">>, <<"stored">>, <<"Junk">>>>

LinesClassify ==
    {Ln(TsAware3, QX, cFull("b", "y")),
     Ln(TsAware3, QY, cHeader),
     Dovecot("m"), Dovecot("n"),
     SubSeq(Dovecot("m"), 1, 5),
     SubSeq(Dovecot("m"), 1, 4),
     Ln(<<"Apr">>, QX, cHeader),
     Ln(TsAware3, QueueToken("a", ":"), cHeader),
     Ln(TsAware3, QX, cRemoved)}

NextClassify == \E s \in LinesClassify, d \in {0, cleanup_interval} : feed_line(s, d)

SpecClassify == Init /\ [][NextClassify]_vars

\* lines for the recipient list: several to= lines, a Subject warning that
\* carries to=, and a host token that reads to=...
cSubject ==
    <<<<"warning:">>, <<"header">>, <<"Subject:">>, <<"hello">>, <<"from">>, <<"local", ";">>,
      tFrom, tTo("s", "w")>>

LinesRcpt ==
    {Ln(TsAware3, QX, cFull("b", "y")),
     Ln(TsAware3, QX, cDeliver("c", "z")),
     Ln(TsAware3, QX, cDeliver("b", "y")),
     Ln(TsAware3, QX, cSubject),
     <<TsAware3, tTo("q", "w"), Proc, QX>> \o cHeader,
     Ln(TsAware3, QX, cRemoved)}

NextRcpt == \E s \in LinesRcpt, d \in {0, cleanup_interval} : feed_line(s, d)

SpecRcpt == Init /\ [][NextRcpt]_vars

\* candidate tokens for position 3: a well-formed id with one character
\* replaced, and tokens of 11 and 13 characters
QueueIdAlphabet == {"0", "9", "A", "F", "G", "a", "f", ":", "="}

QueueIdCandidates ==
    {[QX EXCEPT ![i] = c] : i \in 1..12, c \in QueueIdAlphabet}
        \cup {SubSeq(QX, 1, 11), QX \o <<":">>, SubSeq(QX, 2, 12)}

\* feed_line calls in a run of SpecQueueId
QueueIdFeeds == 2

NextQueueId ==
    \E tok \in QueueIdCandidates :
        nfeeds < QueueIdFeeds /\ feed_line(Ln(TsAware3, tok, cHeader), 0)

SpecQueueId == Init /\ [][NextQueueId]_vars

\* status descriptions: two to four tokens, each a reply code or an
\* enhanced status code, in parentheses as Postfix logs them
CodeTokens == {<<"2", "5", "0">>, <<"2", ".", "0", ".", "0">>, <<"5", ".", "1", ".", "1">>}

\* longest status description of SpecStatus, in tokens
MaxDescLen == 4

Descriptions == UNION {[1..n -> CodeTokens] : n \in 2..MaxDescLen}

Paren(desc) ==
    [i \in 1..Len(desc) |->
        (IF i = 1 THEN <<"(">> ELSE <<>>) \o desc[i] \o (IF i = Len(desc) THEN <<")">> ELSE <<>>)]

LinesStatus ==
    {Ln(TsAware3, QX, <<tFrom, tMsgid, tTo("b", "y"), tStatus>> \o Paren(desc)) : desc \in Descriptions}
        \cup {Ln(TsAware3, QX, cRemoved)}

\* feed_line calls in a run of SpecStatus
StatusFeeds == 2

NextStatus == \E s \in LinesStatus : nfeeds < StatusFeeds /\ feed_line(s, 0)

SpecStatus == Init /\ [][NextStatus]_vars

\* lines for the first-seen timestamp: a line that carries a token
\* timestamp=..., before and after other lines of its transaction
tStamp == <<"timestamp", "=", "z">>

LinesStamp ==
    {Ln(TsAware3, QX, cHeader),
     Ln(TsAware2, QX, cDeliver("b", "y")),
     Ln(TsAware2, QX, <<tStamp>>),
     Ln(TsAware2, QY, cFull("b", "y")),
     Ln(TsAware5, QY, cRemoved),
     Ln(TsAware5, QX, cRemoved)}

NextStamp == \E s \in LinesStamp, d \in {0, cleanup_interval} : feed_line(s, d)

SpecStamp == Init /\ [][NextStamp]_vars

\* lines of two transactions and noise, to be fed in any interleaving
LinesMixed ==
    {Ln(TsAware3, QX, cFull("b", "y")),
     Ln(TsAware3, QX, cDeliver("c", "z")),
     Ln(TsAware3, QX, cRemoved),
     Ln(TsAware2, QY, cFull("d", "w")),
     Ln(TsAware2, QY, cRemoved),
     Ln(<<"Apr">>, QX, cHeader)}

NextMixed == \E s \in LinesMixed, d \in {0, cleanup_interval} : feed_line(s, d)

SpecMixed == Init /\ [][NextMixed]_vars

\* Subject warning lines with a literal header value: one to MaxSubjectLen
\* tokens, each a word, the word "from", or a token ending in ";"
SubjectTokens == {<<"a">>, <<"from">>, <<"x", ";">>}

\* longest literal header value of SpecSubject, in tokens
MaxSubjectLen == 3

SubjectValues == UNION {[1..n -> SubjectTokens] : n \in 1..MaxSubjectLen}

cWarning(value) == <<<<"warning:">>, <<"header">>, <<"Subject:">>>> \o value

LinesSubject == {Ln(TsAware3, QX, cWarning(v)) : v \in SubjectValues}

\* feed_line calls in a run of SpecSubject
SubjectFeeds == 2

NextSubject == \E s \in LinesSubject : nfeeds < SubjectFeeds /\ feed_line(s, 0)

SpecSubject == Init /\ [][NextSubject]_vars

\* Subject warning lines with a MIME header value: an encoded word, two
\* encoded words written without a space between them, an encoded word
\* followed by text, and an encoded word cut before its end; alone on the
\* line or followed by further tokens
MimeStart == <<"=", "?", "U", "T", "F", "-", "8", "?", "B", "?">>

MimeWord(payload) == MimeStart \o payload \o <<"?", "=">>

\* longest payload of an encoded word of SpecMime, in base64 groups
MaxGroups == 2

Payloads == UNION {[1..n -> B64Groups] : n \in 1..MaxGroups}

MimeValues ==
    {MimeWord(pl) : pl \in Payloads}
        \cup {MimeWord(<<g>>) \o MimeWord(<<h>>) : g \in B64Groups, h \in B64Groups}
        \cup {MimeWord(<<g>>) \o <<"a">> : g \in B64Groups}
        \cup {MimeStart \o <<g>> : g \in B64Groups}

MimeRest == {<<>>, <<MimeWord(<<"dGVz">>), <<"from">>, <<"x", ";">>, tFrom>>}

LinesMime == {Ln(TsAware3, QX, cWarning(<<v>> \o rest)) : v \in MimeValues, rest \in MimeRest}

\* feed_line calls in a run of SpecMime
MimeFeeds == 2

NextMime == \E s \in LinesMime : nfeeds < MimeFeeds /\ feed_line(s, 0)

SpecMime == Init /\ [][NextMime]_vars

\* lines that carry the pattern of the secondary subsystem after the prefix
\* of the primary format, among lines of a transaction and a line of the
\* secondary subsystem
cSieve(mid) ==
    <<<<"Info:">>, <<"sieve:">>, tMsgidArg(mid), <<"fileinto">>, <<"action:">>,
      <<"stored">>, <<"Junk">>>>

LinesHybrid ==
    {Ln(TsAware3, QX, cFull("b", "y")),
     Ln(TsAware3, QX, cSieve("m")),
     Ln(TsAware3, QY, cSieve("m")),
     Ln(TsAware3, QY, cSieve("n")),
     Dovecot("m"),
     Ln(TsAware3, QX, cRemoved)}

NextHybrid == \E s \in LinesHybrid, d \in {0, cleanup_interval} : feed_line(s, d)

SpecHybrid == Init /\ [][NextHybrid]_vars

\* lines whose host, process tag or transaction-id token contains "="
LnFull(ts, host, proc, q, content) == <<ts, host, proc, q>> \o content

tHostEq == <<"h", "=", "1">>
tProcEq == <<"p", "=", "2", ":">>
QEq == QueueToken("A", "=")

LinesPrefix ==
    {Ln(TsAware3, QX, cHeader),
     LnFull(TsAware3, tHostEq, Proc, QX, cHeader),
     LnFull(TsAware3, Host, tProcEq, QX, cDeliver("b", "y")),
     LnFull(TsAware3, Host, Proc, QEq, cHeader),
     Ln(TsAware3, QX, cRemoved)}

NextPrefix == \E s \in LinesPrefix, d \in {0, cleanup_interval} : feed_line(s, d)

SpecPrefix == Init /\ [][NextPrefix]_vars

\* delivery lines whose status description holds parenthesised clauses:
\* "(h)", "(h (i))", "((i) h)", "h" and the like
ClauseTokens == {<<"h">>, <<"(", "h">>, <<"h", ")">>, <<"(", "i", ")">>, <<"(", "(", "i", ")">>,
                 <<"(", "i", ")", ")">>}

\* longest status description of SpecDesc, in tokens
MaxClauseLen == 2

Clauses == UNION {[1..n -> ClauseTokens] : n \in 0..MaxClauseLen}

LinesDesc == {Ln(TsAware3, QX, <<tTo("b", "y"), tStatus>> \o desc) : desc \in Clauses}

\* feed_line calls in a run of SpecDesc
DescFeeds == 2

NextDesc == \E s \in LinesDesc : nfeeds < DescFeeds /\ feed_line(s, 0)

SpecDesc == Init /\ [][NextDesc]_vars

\* lines with a status= token at every index the token list offers: as
\* token 0 (not a timestamp), as the host token (index 1), among the
\* content tokens, as the last token, and twice on one line
tHostStatus == <<"status", "=", "x">>
tDeferred == <<"status", "=", "deferred">>

LinesStatusIdx ==
    {Ln(TsAware3, QX, cHeader),
     <<tStatus, Host, Proc, QX, tFrom>>,
     LnFull(TsAware3, tHostStatus, Proc, QX, cHeader),
     Ln(TsAware3, QX, cDeliver("b", "y")),
     Ln(TsAware3, QX, <<tTo("b", "y"), tStatus>>),
     Ln(TsAware3, QX, <<tStatus, <<"(", "a", ")">>, tDeferred, <<"(", "b", ")">>>>),
     Ln(TsAware3, QX, cRemoved)}

NextStatusIdx == \E s \in LinesStatusIdx, d \in {0, cleanup_interval} : feed_line(s, d)

SpecStatusIdx == Init /\ [][NextStatusIdx]_vars

(***************************************************************************)
(* Vocabulary of the properties                                            *)
(***************************************************************************)
\* the step is a feed_line call
FeedStep == nfeeds' = nfeeds + 1

\* the sweep that the feed_line call of this step runs first
Sweep == cleanup_old_entities(state, order, next_cleanup, clock')

\* the line passes the classifier: token 0 parses, token 3 is taken as an id
Accepted(s) == Len(s) >= 5 /\ fromisoformat(s[1]).ok /\ is_queue_id(s[4])

IdOf(s) == SubSeq(s[4], 1, Len(s[4]) - 1)

IsRemoved(s) == Accepted(s) /\ s[5] = <<"removed">>

MandatoryKeys == {K("from"), K("to"), K("message-id"), K("status"), K("status_description")}

Complete(entry) == MandatoryKeys \subseteq DOMAIN entry

Unbracket(s) == strip(s, {"<", ">"})

\* the record that a completion line for its id finds: the one the sweep
\* left, or the empty one that setdefault creates
Found(q) == IF q \in DOMAIN Sweep.state THEN Sweep.state[q] ELSE EmptyDict

\* the completion line of this step reaches the event builder with a record
\* that lacks a mandatory field
FinalizationFaults ==
    /\ FeedStep
    /\ ~Sweep.raised
    /\ IsRemoved(last')
    /\ ~Complete(Found(IdOf(last')))
    /\ get(Found(IdOf(last')), K("raw_log")).ty /= "str"

(***************************************************************************)
(* C1: when the record of X holds sender, recipients, message id, status   *)
(* and status description and X has not been evicted, feeding a 'removed'  *)
(* line for X calls on_event exactly once with those fields, calls         *)
(* on_fault not at all, and leaves X out of the store.                     *)
(***************************************************************************)
C1_Claim ==
    [][(/\ FeedStep
        /\ IsRemoved(last')
        /\ IdOf(last') \in DOMAIN Sweep.state
        /\ Complete(state[IdOf(last')]))
       => LET q == IdOf(last')
              rec == state[q]
          IN  /\ Len(events') = Len(events) + 1
              /\ SubSeq(events', 1, Len(events)) = events
              /\ events'[Len(events')].queue_id = q
              /\ events'[Len(events')].message_from = Unbracket(rec[K("from")].v)
              /\ events'[Len(events')].message_to =
                     [i \in 1..Len(rec[K("to")].v) |-> Unbracket(rec[K("to")].v[i])]
              /\ events'[Len(events')].message_id = Unbracket(rec[K("message-id")].v)
              /\ events'[Len(events')].status = rec[K("status")].v
              /\ events'[Len(events')].status_description = rec[K("status_description")].v
              /\ faults' = faults
              /\ q \notin DOMAIN state']_vars

(***************************************************************************)
(* C3: no exception escapes feed_line; every call returns normally.        *)
(***************************************************************************)
C3_Claim == ret /= "raised"

(***************************************************************************)
(* C4: a completion line processed for a record that lacks a mandatory     *)
(* field calls on_fault with that line and the error raised, and does not  *)
(* call on_event.                                                          *)
(***************************************************************************)
C4_FaultNotEvent ==
    [][(/\ FeedStep
        /\ ~Sweep.raised
        /\ IsRemoved(last')
        /\ ~Complete(Found(IdOf(last'))))
       => /\ events' = events
          /\ Len(faults') = Len(faults) + 1
          /\ SubSeq(faults', 1, Len(faults)) = faults
          /\ faults'[Len(faults')][1] = last'
          /\ faults'[Len(faults')][2].type \in {"KeyError", "AttributeError"}
          /\ faults'[Len(faults')][2].type = "KeyError"
                => faults'[Len(faults')][2].arg \in MandatoryKeys \ DOMAIN Found(IdOf(last'))]_vars

\* a completion line for an incomplete record has been reported as a fault
C4_Witness ==
    /\ Len(faults) > 0
    /\ IsRemoved(faults[Len(faults)][1])
    /\ faults[Len(faults)][1] = last
    /\ faults[Len(faults)][2].type = "KeyError"
    /\ events = <<>>

(***************************************************************************)
(* C5 as stated: after a completion line whose finalization faults, the id *)
(* is no longer in the store.                                              *)
(***************************************************************************)
C5_Claim == [][FinalizationFaults => IdOf(last') \notin DOMAIN state']_vars

(***************************************************************************)
(* C5 amended: after a completion line whose finalization faults, the      *)
(* record is still in the store; it holds what it held before, with the    *)
(* completion line appended to its raw lines (and, for a record the line   *)
(* itself created, the line's timestamp).                                  *)
(***************************************************************************)
C5_RecordKept ==
    [][FinalizationFaults
       => LET q == IdOf(last')
              old == Found(q)
          IN  /\ q \in DOMAIN state'
              /\ DOMAIN state'[q] = (DOMAIN old) \cup {K("raw_log"), K("timestamp")}
              /\ state'[q][K("raw_log")] =
                     VList((IF has(old, K("raw_log")) THEN old[K("raw_log")].v ELSE <<>>)
                           \o <<last'>>)
              /\ state'[q][K("timestamp")] =
                     (IF has(old, K("timestamp")) THEN old[K("timestamp")]
                      ELSE fromisoformat(last'[1]).value)
              /\ \A k \in (DOMAIN old) \ {K("raw_log"), K("timestamp")} : state'[q][k] = old[k]]_vars

\* a faulted completion line whose record, opened by earlier lines, is kept
C5_Witness ==
    /\ Len(faults) > 0
    /\ faults[Len(faults)][1] = last
    /\ IsRemoved(last)
    /\ faults[Len(faults)][2].type = "KeyError"
    /\ IdOf(last) \in DOMAIN state
    /\ Len(state[IdOf(last)][K("raw_log")].v) >= 2

(***************************************************************************)
(* C2 as stated: a record that gets no completion line stays in the store  *)
(* until a sweep fires at which its first-seen timestamp is more than      *)
(* OLD_LOGS older than the current time; that sweep removes it without an  *)
(* on_event or on_fault call for it; a record that is not older than       *)
(* OLD_LOGS when a sweep fires is retained by that sweep.                  *)
(***************************************************************************)
SweepFires == next_cleanup <= clock'

HasInstant(entry) == get(entry, K("timestamp")).ty = "dt"

\* the record of q is gone, or is a new one that the line of this step began
GoneOrRestarted(q) ==
    q \in DOMAIN state' => state'[q][K("raw_log")] = VList(<<last'>>)

CompletedNow(q) == IsRemoved(last') /\ IdOf(last') = q /\ Len(events') = Len(events) + 1

C2_Claim ==
    [][FeedStep =>
        \A q \in DOMAIN state :
            HasInstant(state[q]) =>
                LET age == clock' - state[q][K("timestamp")].v[1]
                IN  /\ (SweepFires /\ age > OLD_LOGS)
                         => /\ GoneOrRestarted(q)
                            /\ \A i \in (Len(events) + 1)..Len(events') :
                                   events'[i].queue_id /= q
                            /\ faults' /= faults => faults'[Len(faults')][1] = last'
                    /\ ~(SweepFires /\ age > OLD_LOGS)
                         => \/ q \in DOMAIN state' /\ ~GoneOrRestarted(q)
                            \/ CompletedNow(q)]_vars

(***************************************************************************)
(* C6 as stated: a line that fails a structural check (fewer than 5        *)
(* tokens, token 0 not a timestamp, token 3 not a transaction id, or a     *)
(* secondary-format line, complete or cut short, that matches no open      *)
(* record) is discarded: no on_fault, no on_event, no record created or    *)
(* changed.                                                                *)
(***************************************************************************)
WellFormedQueueId(tok) ==
    /\ Len(tok) = 12
    /\ tok[12] = ":"
    /\ \A i \in 1..11 : tok[i] \in QueueIdChars

\* tokens 4 to 8 are the literal sequence of the secondary subsystem
SecondaryPattern(s) ==
    /\ Len(s) >= 9
    /\ s[5] = <<"Info:">>
    /\ s[6] = <<"sieve:">>
    /\ startswith(s[7], MsgidPrefix)
    /\ s[8] = <<"fileinto">>
    /\ s[9] = <<"action:">>

\* a line of the secondary subsystem: the pattern, after a timestamp that is
\* not the primary format's
IsSecondary(s) == SecondaryPattern(s) /\ ~fromisoformat(s[1]).ok

\* the <X> of the line's msgid=<X>: token
MsgidOf(s) == rstrip(split_once(s[7], "=")[2], {":"})

Matches(entry, s) ==
    get(entry, K("message-id")).ty = "str" /\ entry[K("message-id")].v = MsgidOf(s)

FailsStructure(s) ==
    \/ Len(s) < 5
    \/ ~fromisoformat(s[1]).ok /\ ~IsSecondary(s)
    \/ ~WellFormedQueueId(s[4]) /\ ~IsSecondary(s)
    \/ IsSecondary(s) /\ \A k \in DOMAIN Sweep.state : ~Matches(Sweep.state[k], s)

C6_Claim ==
    [][(FeedStep /\ ~Sweep.raised /\ FailsStructure(last'))
       => /\ faults' = faults
          /\ events' = events
          /\ state' = Sweep.state]_vars

(***************************************************************************)
(* C7: a line of the secondary subsystem carrying msgid=<X> sets the       *)
(* dovecot_fileinto_action field of every open record whose message-id is  *)
(* <X> to the tokens after 'action:' joined by spaces, and the event built *)
(* from a record carries the record's action; the line changes no other    *)
(* record, changes nothing when no record matches, and calls neither       *)
(* on_event nor on_fault.                                                  *)
(***************************************************************************)
ActionText(s) == join(SubSeq(s, 10, Len(s)))

C7_Attach ==
    [][/\ (FeedStep /\ ~Sweep.raised /\ IsSecondary(last'))
          => /\ DOMAIN state' = DOMAIN Sweep.state
             /\ \A k \in DOMAIN Sweep.state :
                    IF Matches(Sweep.state[k], last')
                    THEN /\ get(state'[k], K("dovecot_fileinto_action")) = VStr(ActionText(last'))
                         /\ \A f \in DOMAIN Sweep.state[k] :
                                f /= K("dovecot_fileinto_action") => state'[k][f] = Sweep.state[k][f]
                    ELSE state'[k] = Sweep.state[k]
             /\ events' = events
             /\ faults' = faults
       /\ (FeedStep /\ Len(events') = Len(events) + 1)
          => events'[Len(events')].dovecot_fileinto_action =
                 get(Found(IdOf(last')), K("dovecot_fileinto_action"))]_vars

\* an event was emitted that carries the action text of a secondary line
C7_Witness ==
    \E i \in 1..Len(events) :
        events[i].dovecot_fileinto_action = VStr(<<"stored", " ", "Junk">>)

(***************************************************************************)
(* C8 as stated: a line is accepted exactly when token 3 has 12            *)
(* characters, the last one the colon and the first 11 uppercase           *)
(* hexadecimal digits; with any other token 3 the line is rejected.        *)
(***************************************************************************)
C8_Claim ==
    [][(FeedStep /\ ~Sweep.raised /\ Len(last') >= 5 /\ fromisoformat(last'[1]).ok)
       => ((state' /= Sweep.state) <=> WellFormedQueueId(last'[4]))]_vars

(***************************************************************************)
(* C9 as stated: the status code and the dotted status code of an event    *)
(* come from the first adjacent pair of description tokens of which the    *)
(* first is three digits and the second three dot-separated digit groups;  *)
(* later pairs do not matter.                                              *)
(***************************************************************************)
CodePairAt(toks, i) ==
    /\ Len(toks[i]) = 3
    /\ \A j \in 1..3 : toks[i][j] \in Digits
    /\ Len(split_all(toks[i + 1], ".")) = 3
    /\ \A j \in 1..3 : isdigit(split_all(toks[i + 1], ".")[j])

FirstCodePair(toks) ==
    LET at == {i \in 1..(Len(toks) - 1) : CodePairAt(toks, i)}
        first == CHOOSE i \in at : \A j \in at : i <= j
    IN  IF at = {} THEN <<Unset, Unset>>
        ELSE <<VInt(int(toks[first])), VStr(toks[first + 1])>>

C9_Claim ==
    \A n \in 1..Len(events) :
        <<events[n].status_code, events[n].status_postfix_code>> =
            FirstCodePair(split(events[n].status_description))

(***************************************************************************)
(* C10: the recipient list of an event is the sequence of the to= values   *)
(* on the field lines of its transaction, in feed order with duplicates    *)
(* kept, and its recipient-domain list is the recipients' domains (the     *)
(* part after the first '@', or the whole address) without duplicates, in  *)
(* order of first appearance.                                              *)
(***************************************************************************)
\* the line is handled as a completion or Subject line, not by _set_fields
NotFieldLine(l) ==
    \/ l[5] = <<"removed">>
    \/ /\ l[5] = <<"warning:">>
       /\ Len(l) >= 6 => /\ l[6] = <<"header">>
                         /\ Len(l) >= 7 => l[7] = <<"Subject:">>

RECURSIVE ToValues(_)
ToValues(toks) ==
    IF Len(toks) = 0 THEN <<>>
    ELSE (IF startswith(Head(toks), <<"to", "=">>)
          THEN <<Unbracket(rstrip(SubSeq(Head(toks), 3, Len(Head(toks))), {","}))>>
          ELSE <<>>) \o ToValues(Tail(toks))

RECURSIVE RecipientsOf(_)
RecipientsOf(lines) ==
    IF Len(lines) = 0 THEN <<>>
    ELSE (IF NotFieldLine(Head(lines)) THEN <<>> ELSE ToValues(Head(lines)))
             \o RecipientsOf(Tail(lines))

DomainOf(addr) ==
    IF \E i \in 1..Len(addr) : addr[i] = "@"
    THEN LET at == CHOOSE i \in 1..Len(addr) : addr[i] = "@" /\ \A j \in 1..(i - 1) : addr[j] /= "@"
         IN  SubSeq(addr, at + 1, Len(addr))
    ELSE addr

RECURSIVE FirstOccurrences(_, _)
FirstOccurrences(seq, i) ==
    IF i > Len(seq) THEN <<>>
    ELSE (IF \A j \in 1..(i - 1) : seq[j] /= seq[i] THEN <<seq[i]>> ELSE <<>>)
             \o FirstOccurrences(seq, i + 1)

C10_Recipients ==
    \A n \in 1..Len(events) :
        /\ events[n].message_to = RecipientsOf(events[n].raw_log)
        /\ events[n].domains_to =
               FirstOccurrences([i \in 1..Len(events[n].message_to) |->
                                    DomainOf(events[n].message_to[i])], 1)

\* an event with a repeated recipient and two domains, the repeated one first
C10_Witness ==
    \E n \in 1..Len(events) :
        /\ events[n].message_to = <<<<"b", "@", "y">>, <<"c", "@", "z">>, <<"b", "@", "y">>>>
        /\ events[n].domains_to = <<<<"y">>, <<"z">>>>

(***************************************************************************)
(* C11 as stated: every accepted line for an id is appended to the raw     *)
(* lines of that id's record before its fields are interpreted, so the     *)
(* record's raw lines, and the raw lines of the event built from it, are   *)
(* the accepted lines bearing the id in feed order, the completion line    *)
(* last; a line that is not accepted or bears another id is added to no    *)
(* record.                                                                 *)
(***************************************************************************)
RawLines(entry) == IF has(entry, K("raw_log")) THEN entry[K("raw_log")].v ELSE <<>>

HoldsRawLines(entry, lines) ==
    get(entry, K("raw_log")).ty = "list" /\ entry[K("raw_log")].v = lines

\* the raw lines of the records other than q are what the sweep left
OthersKeepRawLines(q) ==
    \A k \in (DOMAIN Sweep.state) \ {q} :
        k \in DOMAIN state' /\ get(state'[k], K("raw_log")) = get(Sweep.state[k], K("raw_log"))

C11_Claim ==
    [][(FeedStep /\ ~Sweep.raised)
       => IF Accepted(last')
          THEN LET q == IdOf(last')
                   expected == RawLines(Found(q)) \o <<last'>>
               IN  /\ IF Len(events') = Len(events) + 1
                      THEN events'[Len(events')].raw_log = expected
                      ELSE q \in DOMAIN state' /\ HoldsRawLines(state'[q], expected)
                   /\ OthersKeepRawLines(q)
          ELSE /\ DOMAIN state' = DOMAIN Sweep.state
               /\ \A k \in DOMAIN state' :
                      get(state'[k], K("raw_log")) = get(Sweep.state[k], K("raw_log"))]_vars

(***************************************************************************)
(* C12: a feed_line call made before the scheduled sweep time leaves the   *)
(* schedule unchanged and evicts no record; a sweep that fires reschedules *)
(* the next one cleanup_interval later, fires no earlier than              *)
(* cleanup_interval after construction and no earlier than                 *)
(* cleanup_interval after the sweep that fired before it.                  *)
(***************************************************************************)
C12_SweepSpacing ==
    [][FeedStep
       => /\ IF next_cleanup > clock'
             THEN /\ next_cleanup' = next_cleanup
                  /\ last_sweep' = last_sweep
                  /\ \A q \in DOMAIN state :
                         \/ q \in DOMAIN state' /\ ~GoneOrRestarted(q)
                         \/ CompletedNow(q)
             ELSE /\ next_cleanup' = clock' + cleanup_interval
                  /\ last_sweep' = clock'
          /\ last_sweep' /= last_sweep
                => /\ clock' >= StartClock + cleanup_interval
                   /\ last_sweep /= NoSweep => clock' - last_sweep >= cleanup_interval]_vars

\* a second sweep has fired, with a record in the store
C12_Witness ==
    /\ last_sweep >= StartClock + 2 * cleanup_interval
    /\ state /= EmptyDict

(***************************************************************************)
(* C13 as stated: the timestamp of an open record is the timestamp of the  *)
(* line that created the record, whatever lines of the id came later, and  *)
(* the timestamp of an event is the timestamp of the first line of its     *)
(* transaction.                                                            *)
(***************************************************************************)
\* the value is the datetime that token 0 of the line denotes
IsStampOf(val, line) ==
    val.ty = "dt" /\ val.v = fromisoformat(line[1]).value.v

C13_Claim ==
    /\ \A q \in DOMAIN state :
           get(state[q], K("raw_log")).ty = "list"
               => IsStampOf(get(state[q], K("timestamp")), state[q][K("raw_log")].v[1])
    /\ \A n \in 1..Len(events) : IsStampOf(events[n].timestamp, events[n].raw_log[1])

(***************************************************************************)
(* C14: a primary-format line bearing id X creates or changes only the     *)
(* record of X, and completing X removes only X: every other record the    *)
(* sweep left is the same after the call; an event is what its own raw     *)
(* lines, fed alone to an empty store, produce.                            *)
(***************************************************************************)
IsPrimary(s) == Accepted(s) /\ ~SecondaryPattern(s)

\* the on_event arguments of the last of the lines, fed in turn from (S, O)
RECURSIVE Replay(_, _, _)
Replay(S, O, lines) ==
    LET r == feed_body(S, O, Head(lines))
    IN  IF Len(lines) = 1 THEN r.emitted ELSE Replay(r.state, r.order, Tail(lines))

C14_Isolation ==
    [][/\ (FeedStep /\ ~Sweep.raised /\ IsPrimary(last'))
          => /\ DOMAIN state' \subseteq (DOMAIN Sweep.state) \cup {IdOf(last')}
             /\ \A k \in (DOMAIN Sweep.state) \ {IdOf(last')} :
                    k \in DOMAIN state' /\ state'[k] = Sweep.state[k]
             /\ \A i \in (Len(events) + 1)..Len(events') : events'[i].queue_id = IdOf(last')
       /\ (FeedStep /\ ~Sweep.raised /\ ~Accepted(last')) => state' = Sweep.state
       /\ \A i \in (Len(events) + 1)..Len(events') :
              /\ \A j \in 1..Len(events'[i].raw_log) :
                     IdOf(events'[i].raw_log[j]) = events'[i].queue_id
              /\ Replay(EmptyDict, <<>>, events'[i].raw_log) = <<events'[i]>>]_vars

\* the latest call completed X while the record of Y was open
C14_Witness ==
    /\ IsRemoved(last)
    /\ IdOf(last) = X
    /\ Len(events) = 1
    /\ events[1].queue_id = X
    /\ Len(events[1].raw_log) = 3
    /\ X \notin DOMAIN state
    /\ Y \in DOMAIN state
    /\ Complete(state[Y])

(***************************************************************************)
(* C15: a 'warning: header Subject:' line for id X is appended to the raw  *)
(* lines of X and sets nothing but the subject: no key=value token of the  *)
(* line becomes a field, so the recipients, the sender and every other     *)
(* field of X are what they were, no event is emitted, and no other record *)
(* changes; when decoding the header value faults, the subject is left as  *)
(* it was too.                                                             *)
(***************************************************************************)
IsSubjectLine(s) ==
    /\ Accepted(s)
    /\ Len(s) >= 8
    /\ s[5] = <<"warning:">>
    /\ s[6] = <<"header">>
    /\ s[7] = <<"Subject:">>

C15_SubjectOnly ==
    [][(FeedStep /\ ~Sweep.raised /\ IsSubjectLine(last'))
       => LET q == IdOf(last')
              old == Found(q)
          IN  /\ q \in DOMAIN state'
              /\ DOMAIN state'[q] =
                     (DOMAIN old) \cup {K("raw_log"), K("timestamp")}
                         \cup (IF faults' = faults THEN {K("subject")} ELSE {})
              /\ \A f \in (DOMAIN old) \ {K("raw_log"), K("subject")} : state'[q][f] = old[f]
              /\ faults' /= faults => get(state'[q], K("subject")) = get(old, K("subject"))
              /\ HoldsRawLines(state'[q], RawLines(old) \o <<last'>>)
              /\ OthersKeepRawLines(q)
              /\ \A k \in (DOMAIN Sweep.state) \ {q} : state'[k] = Sweep.state[k]
              /\ events' = events]_vars

\* a record with sender and recipients took a Subject line that carries
\* from= and to=; the recipients are still those of its delivery lines
C15_Witness ==
    /\ X \in DOMAIN state
    /\ IsSubjectLine(last)
    /\ get(state[X], K("subject")) = VStr(<<"hello">>)
    /\ get(state[X], K("to")) = VList(<<<<"<", "b", "@", "y", ">">>>>)
    /\ get(state[X], K("from")) = VStr(<<"<", "a", "@", "x", ">">>)

(***************************************************************************)
(* C16 as stated: for a Subject line whose header value is not             *)
(* MIME-encoded, the stored subject is the tokens after 'Subject:' that    *)
(* come before the first token 'from' directly followed by a token ending  *)
(* in ';', joined by single spaces, and all the tokens after 'Subject:'    *)
(* when the line has no such pair.                                         *)
(***************************************************************************)
MarkerAt(toks, i) ==
    /\ i < Len(toks)
    /\ toks[i] = <<"from">>
    /\ Len(toks[i + 1]) > 0
    /\ toks[i + 1][Len(toks[i + 1])] = ";"

LiteralSubject(toks) ==
    LET at == {i \in 1..Len(toks) : MarkerAt(toks, i)}
        first == CHOOSE i \in at : \A j \in at : i <= j
    IN  IF at = {} THEN toks ELSE SubSeq(toks, 1, first - 1)

C16_Claim ==
    [][(FeedStep /\ ~Sweep.raised /\ IsSubjectLine(last')
            /\ ~startswith(last'[8], <<"=", "?">>))
       => /\ IdOf(last') \in DOMAIN state'
          /\ get(state'[IdOf(last')], K("subject")) =
                 VStr(join(LiteralSubject(SubSeq(last', 8, Len(last')))))]_vars

(***************************************************************************)
(* C17 as stated: for a Subject line whose header value begins with a      *)
(* UTF-8 base64 encoded word, the stored subject is the decoded text of    *)
(* that first encoded word alone; what follows the word, in the token or   *)
(* in later tokens, does not contribute.                                   *)
(***************************************************************************)
\* the token begins with "=?UTF-8?B?" payload "?=", the payload base64
\* groups that decode to valid UTF-8
BeginsWithEncodedWord(tok) ==
    LET parts == split_all(tok, "?")
    IN  /\ Len(parts) >= 5
        /\ parts[1] = <<"=">>
        /\ parts[2] = <<"U", "T", "F", "-", "8">>
        /\ parts[3] = <<"B">>
        /\ \A i \in 1..Len(parts[4]) : parts[4][i] \in B64Groups
        /\ Len(parts[5]) > 0 /\ parts[5][1] = "="
        /\ \A i \in 1..Len(b64decode(parts[4])) : b64decode(parts[4])[i] /= InvalidByte

FirstWordText(tok) == b64decode(split_all(tok, "?")[4])

C17_Claim ==
    [][(FeedStep /\ ~Sweep.raised /\ IsSubjectLine(last') /\ BeginsWithEncodedWord(last'[8]))
       => /\ IdOf(last') \in DOMAIN state'
          /\ get(state'[IdOf(last')], K("subject")) = VStr(FirstWordText(last'[8]))]_vars

(***************************************************************************)
(* C18 as stated: when several open records have the message-id that a     *)
(* line of the secondary subsystem carries, the first of them in the       *)
(* store's iteration order gets the action text and the other matching     *)
(* records are left as they were.                                          *)
(***************************************************************************)
\* the matching records in the store's iteration order
MatchingIds(s) == filter_seq(Sweep.order, {k \in DOMAIN Sweep.state : Matches(Sweep.state[k], s)})

C18_Claim ==
    [][(FeedStep /\ ~Sweep.raised /\ IsSecondary(last') /\ Len(MatchingIds(last')) >= 2)
       => LET ids == MatchingIds(last')
          IN  /\ get(state'[ids[1]], K("dovecot_fileinto_action")) = VStr(ActionText(last'))
              /\ \A i \in 2..Len(ids) : state'[ids[i]] = Sweep.state[ids[i]]]_vars

(***************************************************************************)
(* C19 as stated: a line whose tokens 4 to 8 are the pattern of the        *)
(* secondary subsystem is handled by the cross-correlator alone, whatever  *)
(* tokens 0 and 3 are: it creates no record, is appended to no record's    *)
(* raw lines and sets no field other than the action of the records it     *)
(* matches.                                                                *)
(***************************************************************************)
C19_Claim ==
    [][(FeedStep /\ ~Sweep.raised /\ SecondaryPattern(last'))
       => /\ DOMAIN state' = DOMAIN Sweep.state
          /\ \A k \in DOMAIN state' :
                 /\ DOMAIN state'[k] \subseteq (DOMAIN Sweep.state[k]) \cup {K("dovecot_fileinto_action")}
                 /\ \A f \in (DOMAIN Sweep.state[k]) \ {K("dovecot_fileinto_action")} :
                        get(state'[k], f) = Sweep.state[k][f]]_vars

(***************************************************************************)
(* C20 as stated: a line whose token 0 is not an ISO-8601 timestamp with a *)
(* UTC offset is rejected silently (no record created or changed, no       *)
(* event, no fault), so the first-seen timestamp of every record in the    *)
(* store is offset-aware.                                                  *)
(***************************************************************************)
HasOffset(tok) == fromisoformat(tok).ok /\ fromisoformat(tok).value.v[2]

AwareStamp(entry) ==
    get(entry, K("timestamp")).ty = "dt" /\ entry[K("timestamp")].v[2]

C20_Claim ==
    [][(FeedStep /\ ~Sweep.raised)
       => /\ (~HasOffset(last'[1]) /\ ~SecondaryPattern(last'))
                => /\ state' = Sweep.state
                   /\ events' = events
                   /\ faults' = faults
          /\ \A q \in DOMAIN state' : AwareStamp(state'[q])]_vars

(***************************************************************************)
(* C21 as stated: field extraction reads only the tokens after the four    *)
(* tokens of the prefix.  On a line handled by the field extractor, a      *)
(* prefix token that contains "=" sets no field of the record, and every   *)
(* later token that contains "=" sets the field named before its first     *)
(* "=".                                                                    *)
(***************************************************************************)
\* the step fed a line that went through _set_fields
FieldStep ==
    /\ FeedStep /\ ~Sweep.raised
    /\ Accepted(last') /\ ~SecondaryPattern(last') /\ ~NotFieldLine(last')
    /\ faults' = faults
    /\ IdOf(last') \in DOMAIN state'

NameOf(tok) == split_once(tok, "=")[1]

PrefixNames(s) == {NameOf(s[i]) : i \in {j \in 1..4 : contains(s[j], "=")}}

C21_Claim ==
    [][FieldStep
       => /\ \A name \in PrefixNames(last') :
                 get(state'[IdOf(last')], name) = get(Found(IdOf(last')), name)
          /\ \A i \in 5..Len(last') :
                 contains(last'[i], "=") => has(state'[IdOf(last')], NameOf(last'[i]))]_vars

(***************************************************************************)
(* C22 as stated: the status description stored for a line with a status=  *)
(* token is the tokens after that token joined by single spaces, with      *)
(* exactly one leading "(" and exactly one trailing ")" removed, so a      *)
(* description that ends with a parenthesised clause keeps the ")" of that *)
(* clause.                                                                 *)
(***************************************************************************)
IsStatusToken(tok) == contains(tok, "=") /\ NameOf(tok) = K("status")

\* the position of the last status= token of the line, 0 if it has none
StatusAt(s) ==
    IF \E i \in 1..Len(s) : IsStatusToken(s[i])
    THEN CHOOSE i \in 1..Len(s) :
             IsStatusToken(s[i]) /\ \A j \in (i + 1)..Len(s) : ~IsStatusToken(s[j])
    ELSE 0

\* s without one leading "(" and without one trailing ")"
StripOne(s) ==
    LET a == IF Len(s) > 0 /\ Head(s) = "(" THEN Tail(s) ELSE s
    IN  IF Len(a) > 0 /\ a[Len(a)] = ")" THEN SubSeq(a, 1, Len(a) - 1) ELSE a

C22_Claim ==
    [][(FieldStep /\ StatusAt(last') > 0)
       => get(state'[IdOf(last')], K("status_description"))
              = VStr(StripOne(join(SubSeq(last', StatusAt(last') + 1, Len(last')))))]_vars

(***************************************************************************)
(* C23 as stated: after a sweep has evicted the record of id X, a          *)
(* completion line for X that arrives while X is not in the store starts a *)
(* new record silently: the record is in the store with that line as its   *)
(* only raw line and the line's timestamp as first-seen, no event is       *)
(* emitted and no fault is reported.                                       *)
(***************************************************************************)
\* the step fed a completion line for an id that a sweep has evicted and
\* that the store left by the sweep of this call does not hold
LateCompletion ==
    /\ FeedStep /\ ~Sweep.raised
    /\ IsRemoved(last')
    /\ IdOf(last') \in evicted'
    /\ IdOf(last') \notin DOMAIN Sweep.state

\* the record of the fed line is new: it holds that line and its timestamp only
StartsRecord ==
    /\ IdOf(last') \in DOMAIN state'
    /\ state'[IdOf(last')] =
           put(put(EmptyDict, K("raw_log"), VList(<<last'>>)),
               K("timestamp"), fromisoformat(last'[1]).value)

C23_Claim ==
    [][LateCompletion => StartsRecord /\ events' = events /\ faults' = faults]_vars

(***************************************************************************)
(* C23 as the code has it: the late completion line starts the new record  *)
(* and emits no event, and the line is reported to on_fault with the       *)
(* KeyError of the first mandatory field, which the new record lacks.      *)
(***************************************************************************)
C23_LateCompletion ==
    [][LateCompletion
       => /\ StartsRecord
          /\ events' = events
          /\ faults' = Append(faults, <<last', KeyError(K("from"))>>)]_vars

\* a completion line for an evicted id has just been fed and has started a record
C23_Witness ==
    /\ Len(last) >= 5 /\ IsRemoved(last)
    /\ IdOf(last) \in evicted
    /\ IdOf(last) \in DOMAIN state
    /\ HoldsRawLines(state[IdOf(last)], <<last>>)
    /\ Len(faults) > 0
    /\ faults[Len(faults)] = <<last, KeyError(K("from"))>>

(***************************************************************************)
(* C24: on a line that passes the classifier the status= token is never    *)
(* token 0, so the test of the remembered index never takes a status token *)
(* for absent: whenever a line handled by the field extractor holds a      *)
(* status= token, the status description of the record is set from the     *)
(* tokens that follow the (last) status= token of that line.  The          *)
(* description is compared up to its leading "(" and trailing ")".         *)
(***************************************************************************)
Parens == {"(", ")"}

C24_StatusIndex ==
    [][(FeedStep /\ ~Sweep.raised /\ Accepted(last'))
       => /\ ~IsStatusToken(last'[1])
          /\ (FieldStep /\ StatusAt(last') > 0)
                => /\ StatusAt(last') >= 2
                   /\ get(state'[IdOf(last')], K("status_description")).ty = "str"
                   /\ strip(get(state'[IdOf(last')], K("status_description")).v, Parens)
                          = strip(join(SubSeq(last', StatusAt(last') + 1, Len(last'))), Parens)]_vars

\* a line with its status= token at index 1 has just set the description
C24_Witness ==
    /\ Len(last) >= 5 /\ Accepted(last) /\ ~NotFieldLine(last)
    /\ StatusAt(last) = 2
    /\ IdOf(last) \in DOMAIN state
    /\ get(state[IdOf(last)], K("status_description"))
           = VStr(join(SubSeq(last, 3, Len(last))))
    /\ ret = "returned"

(***************************************************************************)
(* C25 as stated: after every feed_line call every record of the store has *)
(* a first-seen timestamp that is a timestamp value and raw lines that are *)
(* a non-empty sequence of lines.                                          *)
(***************************************************************************)
WellFormedRecord(entry) ==
    /\ get(entry, K("timestamp")).ty = "dt"
    /\ get(entry, K("raw_log")).ty = "list"
    /\ Len(entry[K("raw_log")].v) > 0

C25_Claim == \A q \in DOMAIN state : WellFormedRecord(state[q])

(***************************************************************************)
(* C26: completion is final for a record.  The call that emits the event   *)
(* of id X leaves no record of X in the store.  A later accepted line      *)
(* bearing X, fed while the store holds no record of X, creates a record   *)
(* that is the one the line creates in an empty store: its raw lines are   *)
(* that line alone, its first-seen timestamp is that line's, and it holds  *)
(* no field of the completed transaction.  No call changes an event that   *)
(* was emitted before it.  Lines with a raw_log= or a timestamp= token,    *)
(* which overwrite what feed_line stored (C11, C13), are left aside.       *)
(***************************************************************************)
\* the event of q has been emitted
Completed(q) == \E n \in 1..Len(events) : events[n].queue_id = q

\* the line holds a token that names a key feed_line maintains itself
Collides(s) ==
    \E i \in 1..Len(s) :
        contains(s[i], "=") /\ NameOf(s[i]) \in {K("raw_log"), K("timestamp")}

\* the record the line creates when its id is unknown to the parser
FreshRecord(s) == feed_body(EmptyDict, <<>>, s).state[IdOf(s)]

====
